---- MODULE Spec2Model ----
(***************************************************************************)
(* Model of src/prompt_parser.py: parse_amount and parse_constraints.      *)
(*                                                                         *)
(* A Python str is modelled as a sequence of characters, each character a  *)
(* one-symbol string ("a", "5", " ", "$").  Three characters that cannot   *)
(* be written in a module are named: "LE" (U+2264), "GE" (U+2265) and      *)
(* "DOTLESS_I" (U+0131, LATIN SMALL LETTER DOTLESS I).                     *)
(*                                                                         *)
(* A Python float is modelled as an exact decimal m * 10^e, kept           *)
(* normalised (m not divisible by 10); binary rounding error is not        *)
(* modelled.  A Python int is an Int.                                      *)
(***************************************************************************)
EXTENDS Integers, Sequences, FiniteSets, TLC

VARIABLES pc, prompt, value, constraints, ret, raised

vars == <<pc, prompt, value, constraints, ret, raised>>

-----------------------------------------------------------------------------
(* Characters                                                              *)

DigitChars == <<"0", "1", "2", "3", "4", "5", "6", "7", "8", "9">>

LowerLetters ==
  <<"a", "b", "c", "d", "e", "f", "g", "h", "i", "j", "k", "l", "m",
    "n", "o", "p", "q", "r", "s", "t", "u", "v", "w", "x", "y", "z">>

UpperLetters ==
  <<"A", "B", "C", "D", "E", "F", "G", "H", "I", "J", "K", "L", "M",
    "N", "O", "P", "Q", "R", "S", "T", "U", "V", "W", "X", "Y", "Z">>

IsDigit(ch) == \E d \in 1..10 : DigitChars[d] = ch

DigitVal(ch) == (CHOOSE d \in 1..10 : DigitChars[d] = ch) - 1

\* \s of the re module and the characters str.strip() removes
IsSpace(ch) == ch \in {" ", "\n", "\t"}

\* str.lower() of one character; U+0131 is its own lower case
LowerChar(ch) ==
  IF \E n \in 1..26 : UpperLetters[n] = ch
    THEN LowerLetters[CHOOSE n \in 1..26 : UpperLetters[n] = ch]
    ELSE ch

\* re.IGNORECASE: the characters a pattern letter matches are its two cases
\* and, for "i", U+0131 as well
FoldChar(ch) == IF ch = "DOTLESS_I" THEN "i" ELSE LowerChar(ch)

-----------------------------------------------------------------------------
(* str methods                                                             *)

RECURSIVE Lower(_)
\* s.lower(), one half of s after the other
Lower(s) ==
  IF s = <<>> THEN <<>>
  ELSE IF Len(s) = 1 THEN <<LowerChar(s[1])>>
  ELSE Lower(SubSeq(s, 1, Len(s) \div 2)) \o Lower(SubSeq(s, Len(s) \div 2 + 1, Len(s)))

\* s.replace(ch, '')
RemoveChar(s, ch) == SelectSeq(s, LAMBDA x : x # ch)

RECURSIVE LStrip(_)
LStrip(s) == IF s # <<>> /\ IsSpace(Head(s)) THEN LStrip(Tail(s)) ELSE s

RECURSIVE RStrip(_)
RStrip(s) ==
  IF s # <<>> /\ IsSpace(s[Len(s)]) THEN RStrip(SubSeq(s, 1, Len(s) - 1)) ELSE s

\* s.strip()
Strip(s) == RStrip(LStrip(s))

\* whether w occurs in s at position i, character for character
OccursAt(w, s, i) ==
  /\ i + Len(w) - 1 <= Len(s)
  /\ \A n \in 1..Len(w) : s[i + n - 1] = w[n]

\* w in s
Contains(s, w) == \E i \in 1..(Len(s) + 1) : OccursAt(w, s, i)

-----------------------------------------------------------------------------
(* Regular expressions of the re module, as syntax trees, and a            *)
(* backtracking matcher that lists the ways a pattern matches at a         *)
(* position in the order re tries them.  All patterns of the program are   *)
(* compiled with re.IGNORECASE.                                            *)

Lit(w) == [k |-> "lit", w |-> w]
AnyDigit == [k |-> "digit"]
AnySpace == [k |-> "space"]
Cat(rs) == [k |-> "cat", rs |-> rs]
Alt(rs) == [k |-> "alt", rs |-> rs]
Rep(r, lo, hi) == [k |-> "rep", r |-> r, lo |-> lo, hi |-> hi, inf |-> FALSE]
RepInf(r, lo) == [k |-> "rep", r |-> r, lo |-> lo, hi |-> lo, inf |-> TRUE]
Star(r) == RepInf(r, 0)
Plus(r) == RepInf(r, 1)
Opt(r) == Rep(r, 0, 1)
Grp(n, r) == [k |-> "grp", n |-> n, r |-> r]

NGroups == 6

\* a group that did not take part in the match: m.group(n) is None
NoGroup == <<0, 0>>

NoGroups == [n \in 1..NGroups |-> NoGroup]

RECURSIVE Fold(_)
\* s as a pattern compiled with re.IGNORECASE sees it: the patterns'
\* letters are lower case
Fold(s) ==
  IF s = <<>> THEN <<>>
  ELSE IF Len(s) = 1 THEN <<FoldChar(s[1])>>
  ELSE Fold(SubSeq(s, 1, Len(s) \div 2)) \o Fold(SubSeq(s, Len(s) \div 2 + 1, Len(s)))

RECURSIVE Captured(_, _, _)
\* the matches sts of a group's pattern at position i, recorded as group n
Captured(sts, n, i) ==
  IF sts = <<>> THEN <<>>
  ELSE <<[e |-> Head(sts).e, c |-> [Head(sts).c EXCEPT ![n] = <<i, Head(sts).e>>]]>>
       \o Captured(Tail(sts), n, i)

RECURSIVE M(_, _, _, _)
RECURSIVE MCat(_, _, _, _)
RECURSIVE MAlt(_, _, _, _, _)
RECURSIVE MRep(_, _, _, _, _)
RECURSIVE MEach(_, _, _, _, _)
RECURSIVE MRepEach(_, _, _, _, _)

\* the matches of r at position i of the folded string s, groups so far c:
\* a sequence of [e |-> position after the match, c |-> groups], most
\* preferred first
M(r, s, i, c) ==
  CASE r.k = "lit" ->
         IF OccursAt(r.w, s, i) THEN <<[e |-> i + Len(r.w), c |-> c]>> ELSE <<>>
    [] r.k = "digit" ->
         IF i <= Len(s) /\ IsDigit(s[i]) THEN <<[e |-> i + 1, c |-> c]>> ELSE <<>>
    [] r.k = "space" ->
         IF i <= Len(s) /\ IsSpace(s[i]) THEN <<[e |-> i + 1, c |-> c]>> ELSE <<>>
    [] r.k = "cat" -> MCat(r.rs, 1, s, <<[e |-> i, c |-> c]>>)
    [] r.k = "alt" -> MAlt(r.rs, 1, s, i, c)
    [] r.k = "rep" -> MRep(r, 0, s, i, c)
    [] r.k = "grp" -> Captured(M(r.r, s, i, c), r.n, i)

\* rs[j], rs[j+1], ... in sequence, continuing each of the matches sts
MCat(rs, j, s, sts) ==
  IF j > Len(rs) THEN sts ELSE MCat(rs, j + 1, s, MEach(rs[j], s, sts, 1, <<>>))

\* r continued from each of sts[n..], results appended to acc in order
MEach(r, s, sts, n, acc) ==
  IF n > Len(sts) THEN acc
  ELSE MEach(r, s, sts, n + 1, acc \o M(r, s, sts[n].e, sts[n].c))

\* the alternatives rs[j], rs[j+1], ... left to right
MAlt(rs, j, s, i, c) ==
  IF j > Len(rs) THEN <<>> ELSE M(rs[j], s, i, c) \o MAlt(rs, j + 1, s, i, c)

\* a greedy repeat after n iterations: one more iteration first, then stop
MRep(r, n, s, i, c) ==
  LET more == IF r.inf \/ n < r.hi
                THEN MRepEach(r, n + 1, s, M(r.r, s, i, c), 1)
                ELSE <<>>
      stop == IF n >= r.lo THEN <<[e |-> i, c |-> c]>> ELSE <<>>
  IN more \o stop

MRepEach(r, n, s, sts, j) ==
  IF j > Len(sts) THEN <<>>
  ELSE MRep(r, n, s, sts[j].e, sts[j].c) \o MRepEach(r, n, s, sts, j + 1)

NoMatch == [found |-> FALSE, start |-> 0, end |-> 0, c |-> NoGroups]

\* re.match at position i of the folded string s: the most preferred match
MatchAt(r, s, i) ==
  LET ms == M(r, s, i, NoGroups)
  IN IF ms # <<>>
       THEN [found |-> TRUE, start |-> i, end |-> ms[1].e, c |-> ms[1].c]
       ELSE NoMatch

RECURSIVE SearchInLast(_, _, _, _)
\* the match at the last of the positions lo..hi the pattern matches at
SearchInLast(r, s, lo, hi) ==
  IF lo = hi THEN MatchAt(r, s, lo)
  ELSE LET last == SearchInLast(r, s, (lo + hi) \div 2 + 1, hi)
       IN IF last.found THEN last ELSE SearchInLast(r, s, lo, (lo + hi) \div 2)

RECURSIVE SearchIn(_, _, _, _)
\* the match at the first of the positions lo..hi of the folded string s
\* that the pattern matches at: the positions of the first half of lo..hi
\* are tried before those of the second
SearchIn(r, s, lo, hi) ==
  IF lo = hi THEN MatchAt(r, s, lo)
  ELSE LET first == SearchIn(r, s, lo, (lo + hi) \div 2)
       IN IF first.found THEN first ELSE SearchIn(r, s, (lo + hi) \div 2 + 1, hi)

\* re.search(pattern, s, re.IGNORECASE): every position 1..Len(s)+1 is a
\* place a match may start at
Search(r, s) == SearchIn(r, Fold(s), 1, Len(s) + 1)

\* m.group(n) is not None
HasGroup(m, n) == m.c[n] # NoGroup

\* m.group(n), for a group that took part
Group(m, s, n) == SubSeq(s, m.c[n][1], m.c[n][2] - 1)

-----------------------------------------------------------------------------
(* Numbers                                                                 *)

RECURSIVE Pow10(_)
Pow10(n) == IF n <= 0 THEN 1 ELSE 10 * Pow10(n - 1)

RECURSIVE Dec(_, _)
\* the float m * 10^e
Dec(m, e) ==
  IF m = 0 THEN [t |-> "float", m |-> 0, e |-> 0]
  ELSE IF m % 10 = 0 THEN Dec(m \div 10, e + 1)
  ELSE [t |-> "float", m |-> m, e |-> e]

\* Python's None, as a value of the same shape as a float
None == [t |-> "None", m |-> 0, e |-> 0]

MinExp(a, b) == IF a.e <= b.e THEN a.e ELSE b.e

\* a's mantissa at exponent e <= a.e
Scaled(a, e) == a.m * Pow10(a.e - e)

DecAdd(a, b) == Dec(Scaled(a, MinExp(a, b)) + Scaled(b, MinExp(a, b)), MinExp(a, b))

DecSub(a, b) == Dec(Scaled(a, MinExp(a, b)) - Scaled(b, MinExp(a, b)), MinExp(a, b))

DecLeq(a, b) == Scaled(a, MinExp(a, b)) <= Scaled(b, MinExp(a, b))

\* max(a, b) of two floats
DecMax(a, b) == IF DecLeq(b, a) THEN a ELSE b

\* a / 2.0
DecHalf(a) == Dec(a.m * 5, a.e - 1)

\* n / d rounded to the nearest integer, ties to the even one (d > 0, n >= 0)
RoundHalfEven(n, d) ==
  LET q == n \div d
      r == n % d
  IN IF 2 * r > d \/ (2 * r = d /\ q % 2 = 1) THEN q + 1 ELSE q

\* round(a, 2) of a float a >= 0
Round2(a) ==
  IF a.e >= 0 - 2 THEN a ELSE Dec(RoundHalfEven(a.m, Pow10(0 - 2 - a.e)), 0 - 2)

RECURSIVE IntOfDigits(_)
\* int(s) of a string of decimal digits
IntOfDigits(s) ==
  IF s = <<>> THEN 0
  ELSE 10 * IntOfDigits(SubSeq(s, 1, Len(s) - 1)) + DigitVal(s[Len(s)])

\* the grammar float() accepts, after it strips white space:
\*   [sign] (infinity | inf | nan | digits [. [digits]] [exp] | . digits [exp])
\* with single underscores allowed between digits
DigitPart == Cat(<<AnyDigit, Star(Cat(<<Opt(Lit(<<"_">>)), AnyDigit>>))>>)

ExponentPart ==
  Cat(<<Lit(<<"e">>), Grp(3, Opt(Alt(<<Lit(<<"+">>), Lit(<<"-">>)>>))),
        Grp(4, DigitPart)>>)

FloatLiteral ==
  Cat(<<Grp(5, Opt(Alt(<<Lit(<<"+">>), Lit(<<"-">>)>>))),
        Alt(<<Grp(6, Alt(<<Lit(<<"i", "n", "f", "i", "n", "i", "t", "y">>),
                           Lit(<<"i", "n", "f">>),
                           Lit(<<"n", "a", "n">>)>>)),
              Cat(<<Grp(1, DigitPart),
                    Opt(Cat(<<Lit(<<".">>), Opt(Grp(2, DigitPart))>>)),
                    Opt(ExponentPart)>>),
              Cat(<<Lit(<<".">>), Grp(2, DigitPart), Opt(ExponentPart)>>)>>)>>)

\* the ways FloatLiteral matches all of s; float() takes letters in either
\* case and, unlike re, U+0131 for no letter
FullMatches(s) ==
  SelectSeq(M(FloatLiteral, Lower(s), 1, NoGroups), LAMBDA st : st.e = Len(s) + 1)

IsFloatLiteral(s) == FullMatches(Strip(s)) # <<>>

\* float(s) of a string float() accepts
FloatOf(s) ==
  LET t == Strip(s)
      c == FullMatches(t)[1].c
      part(n) == IF c[n] = NoGroup THEN <<>>
                 ELSE RemoveChar(SubSeq(t, c[n][1], c[n][2] - 1), "_")
      neg == part(5) = <<"-">>
      mant == IntOfDigits(part(1) \o part(2))
      ex == (IF part(3) = <<"-">> THEN 0 - IntOfDigits(part(4))
             ELSE IntOfDigits(part(4))) - Len(part(2))
  IN IF c[6] # NoGroup
       THEN [t |-> IF Lower(part(6)) = <<"n", "a", "n">> THEN "nan" ELSE "inf",
             m |-> IF neg THEN 0 - 1 ELSE 1, e |-> 0]
       ELSE Dec(IF neg THEN 0 - mant ELSE mant, ex)

-----------------------------------------------------------------------------
(* parse_amount                                                            *)

million == <<"m", "i", "l", "l", "i", "o", "n">>
billion == <<"b", "i", "l", "l", "i", "o", "n">>

WS == Star(AnySpace)

RECURSIVE ReSub(_, _)
\* re.sub(r, '', s, flags=re.IGNORECASE), for a pattern that matches no
\* empty string
ReSub(r, s) ==
  LET m == Search(r, s)
  IN IF ~m.found THEN s
     ELSE SubSeq(s, 1, m.start - 1) \o ReSub(r, SubSeq(s, m.end, Len(s)))

\* the arguments of parse_amount: an int or float m * 10^e, a str s, or a
\* value of another type
IntArg(n) == [t |-> "int", m |-> n, e |-> 0, s |-> <<>>]
FloatArg(m, e) == [t |-> "float", m |-> m, e |-> e, s |-> <<>>]
StrArg(s) == [t |-> "str", m |-> 0, e |-> 0, s |-> s]
OtherArg(t) == [t |-> t, m |-> 0, e |-> 0, s |-> <<>>]

\* the two multipliers exchanged
MultiplierSwapped(cleaned) ==
  IF Contains(cleaned, million) THEN 9
  ELSE IF Contains(cleaned, billion) THEN 6
  ELSE 0

\* lines 23-31: the multiplier, as a power of ten
Multiplier(cleaned) ==
  IF Contains(cleaned, million) THEN 6
  ELSE IF Contains(cleaned, billion) THEN 9
  ELSE 0

\* lines 24-32: the string handed to float()
Cleaned(s) ==
  LET v1 == RemoveChar(Lower(Strip(s)), "$")
      v2 == IF Contains(v1, million) THEN ReSub(Cat(<<WS, Lit(million)>>), v1)
            ELSE IF Contains(v1, billion) THEN ReSub(Cat(<<WS, Lit(billion)>>), v1)
            ELSE v1
  IN Strip(RemoveChar(v2, ","))

\* x * multiplier; inf and nan stay what they are
Times(x, k) == IF x.t = "float" THEN Dec(x.m, x.e + k) ELSE x

\* parse_amount with the ValueError of float() caught and None returned
parse_amount_caught(v) ==
  IF v.t \in {"int", "float"} THEN [raised |-> FALSE, ret |-> Dec(v.m, v.e)]
  ELSE IF v.t # "str" THEN [raised |-> FALSE, ret |-> None]
  ELSE IF ~IsFloatLiteral(Cleaned(v.s)) THEN [raised |-> FALSE, ret |-> None]
  ELSE [raised |-> FALSE,
        ret |-> Times(FloatOf(Cleaned(v.s)),
                      Multiplier(RemoveChar(Lower(Strip(v.s)), "$")))]

\* parse_amount(v): [raised |-> whether float() raised ValueError,
\*                   ret |-> the value returned otherwise]
parse_amount(v) ==
  IF v.t \in {"int", "float"} THEN [raised |-> FALSE, ret |-> Dec(v.m, v.e)]
  ELSE IF v.t # "str" THEN [raised |-> FALSE, ret |-> None]
  ELSE IF ~IsFloatLiteral(Cleaned(v.s)) THEN [raised |-> TRUE, ret |-> None]
  ELSE [raised |-> FALSE,
        ret |-> Times(FloatOf(Cleaned(v.s)),
                      Multiplier(RemoveChar(Lower(Strip(v.s)), "$")))]

-----------------------------------------------------------------------------
(* The four patterns of parse_constraints                                  *)

between == <<"b", "e", "t", "w", "e", "e", "n">>
from == <<"f", "r", "o", "m">>
to == <<"t", "o">>
and == <<"a", "n", "d">>
word == <<"w", "o", "r", "d">>
percent == <<"p", "e", "r", "c", "e", "n", "t">>

\* (?:between|from)
BetweenFrom == Alt(<<Lit(between), Lit(from)>>)

\* (?:-|to|and)
RangeSep == Alt(<<Lit(<<"-">>), Lit(to), Lit(and)>>)

\* lines 47-50; w_low, w_high and w_target are groups 1, 2 and 3
w_pattern ==
  Cat(<<Alt(<<Cat(<<BetweenFrom, WS, Grp(1, Rep(AnyDigit, 2, 4)), WS,
                    RangeSep, WS, Grp(2, Rep(AnyDigit, 2, 4))>>),
              Grp(3, Rep(AnyDigit, 2, 4))>>),
        WS,
        Alt(<<Cat(<<Lit(word), Opt(Lit(<<"s">>))>>), Lit(word)>>)>>)

\* \d{1,3}(?:,\d{3})*(?:\.\d+)?\s*(?:million|billion)
Magnitude ==
  Cat(<<Rep(AnyDigit, 1, 3),
        Star(Cat(<<Lit(<<",">>), Rep(AnyDigit, 3, 3)>>)),
        Opt(Cat(<<Lit(<<".">>), Plus(AnyDigit)>>)),
        WS,
        Alt(<<Lit(million), Lit(billion)>>)>>)

\* (?:under|below|maximum of|up to|not exceeding|<=|less than)
UpperCues ==
  <<Lit(<<"u", "n", "d", "e", "r">>),
    Lit(<<"b", "e", "l", "o", "w">>),
    Lit(<<"m", "a", "x", "i", "m", "u", "m", " ", "o", "f">>),
    Lit(<<"u", "p", " ", "t", "o">>),
    Lit(<<"n", "o", "t", " ", "e", "x", "c", "e", "e", "d", "i", "n", "g">>),
    Lit(<<"LE">>),
    Lit(<<"l", "e", "s", "s", " ", "t", "h", "a", "n">>)>>

\* (?:at least|minimum of|no less than|exceeding|more than|over|>=)
LowerCues ==
  <<Lit(<<"a", "t", " ", "l", "e", "a", "s", "t">>),
    Lit(<<"m", "i", "n", "i", "m", "u", "m", " ", "o", "f">>),
    Lit(<<"n", "o", " ", "l", "e", "s", "s", " ", "t", "h", "a", "n">>),
    Lit(<<"e", "x", "c", "e", "e", "d", "i", "n", "g">>),
    Lit(<<"m", "o", "r", "e", " ", "t", "h", "a", "n">>),
    Lit(<<"o", "v", "e", "r">>),
    Lit(<<"GE">>)>>

\* (?:budget|cost|spend|capex|investment)
BudgetWords ==
  <<Lit(<<"b", "u", "d", "g", "e", "t">>),
    Lit(<<"c", "o", "s", "t">>),
    Lit(<<"s", "p", "e", "n", "d">>),
    Lit(<<"c", "a", "p", "e", "x">>),
    Lit(<<"i", "n", "v", "e", "s", "t", "m", "e", "n", "t">>)>>

\* \s*\$?\s*
Dollar == Cat(<<WS, Opt(Lit(<<"$">>)), WS>>)

\* lines 75-80
budget_pattern ==
  Alt(<<Cat(<<Alt(UpperCues), Dollar, Grp(1, Magnitude)>>),
        Cat(<<Alt(LowerCues), Dollar, Grp(2, Magnitude)>>),
        Cat(<<Opt(Lit(<<"$">>)), WS, Grp(3, Magnitude), WS, Opt(Alt(BudgetWords))>>)>>)

\* \d{1,3}(?:\.\d+)?
PercentNumber ==
  Cat(<<Rep(AnyDigit, 1, 3), Opt(Cat(<<Lit(<<".">>), Plus(AnyDigit)>>))>>)

\* lines 101-105
percent_pattern ==
  Alt(<<Cat(<<BetweenFrom, WS, Grp(1, PercentNumber), WS,
              Opt(Alt(<<Lit(<<"%">>), Lit(percent)>>)), WS, RangeSep, WS,
              Grp(2, PercentNumber), WS,
              Opt(Alt(<<Lit(<<"%">>), Lit(percent)>>))>>),
        Cat(<<Grp(3, PercentNumber), WS, Alt(<<Lit(percent), Lit(<<"%">>)>>)>>)>>)

\* (days?|weeks?|months?|years?)
TimeUnit ==
  Alt(<<Cat(<<Lit(<<"d", "a", "y">>), Opt(Lit(<<"s">>))>>),
        Cat(<<Lit(<<"w", "e", "e", "k">>), Opt(Lit(<<"s">>))>>),
        Cat(<<Lit(<<"m", "o", "n", "t", "h">>), Opt(Lit(<<"s">>))>>),
        Cat(<<Lit(<<"y", "e", "a", "r">>), Opt(Lit(<<"s">>))>>)>>)

\* lines 129-133
time_pattern ==
  Alt(<<Cat(<<BetweenFrom, WS, Grp(1, Rep(AnyDigit, 1, 4)), WS, Grp(2, TimeUnit),
              WS, RangeSep, WS, Grp(3, Rep(AnyDigit, 1, 4)), WS, Grp(4, TimeUnit)>>),
        Cat(<<Grp(5, Rep(AnyDigit, 1, 4)), WS, Grp(6, TimeUnit)>>)>>)

-----------------------------------------------------------------------------
(* The records parse_constraints builds from a match m of a pattern in s   *)

Max(a, b) == IF a >= b THEN a ELSE b

\* int(g.replace(",", ""))
IntOf(g) == IntOfDigits(RemoveChar(g, ","))

\* a tolerance of 1% instead of 10%
HundredthRounded(v) == RoundHalfEven(v, 100)

\* int(round(0.1 * v)): the float product 0.1 * v rounds to the decimal v/10
\* for every v the pattern admits, and round() takes ties to the even integer
TenthRounded(v) == RoundHalfEven(v, 10)

\* lines 53-72
WordRecord(m, s) ==
  IF HasGroup(m, 1) /\ HasGroup(m, 2)
    THEN LET lower == IntOf(Group(m, s, 1))
             upper == IntOf(Group(m, s, 2))
         IN [type |-> "range",
             lower_bound |-> lower,
             upper_bound |-> upper,
             target |-> (lower + upper) \div 2,
             tolerance |-> (upper - lower) \div 2]
    ELSE LET v == IntOf(Group(m, s, 3))
             tolerance == Max(10, TenthRounded(v))
         IN [type |-> "fixed",
             lower_bound |-> v - tolerance,
             upper_bound |-> v + tolerance,
             target |-> v,
             tolerance |-> tolerance]

\* line 83: group(1) or group(2) or group(3)
RawValue(m, s) ==
  IF HasGroup(m, 1) THEN Group(m, s, 1)
  ELSE IF HasGroup(m, 2) THEN Group(m, s, 2)
  ELSE Group(m, s, 3)

\* the labels of the two cue lists exchanged
BudgetTypeSwapped(m) ==
  IF HasGroup(m, 1) THEN "min" ELSE IF HasGroup(m, 2) THEN "max" ELSE "fixed"

\* lines 85-90
BudgetType(m) ==
  IF HasGroup(m, 1) THEN "max" ELSE IF HasGroup(m, 2) THEN "min" ELSE "fixed"

\* lines 92-98
BudgetRecord(m, s, amount) ==
  [type |-> BudgetType(m),
   target |-> amount,
   upper_bound |-> IF BudgetType(m) = "max" THEN amount ELSE None,
   lower_bound |-> IF BudgetType(m) = "min" THEN amount ELSE None,
   raw_value |-> RawValue(m, s)]

One == Dec(1, 0)

\* lines 107-126
PercentRecord(m, s) ==
  IF HasGroup(m, 1) /\ HasGroup(m, 2)
    THEN LET lower == FloatOf(Group(m, s, 1))
             upper == FloatOf(Group(m, s, 2))
         IN [type |-> "range",
             lower_bound |-> lower,
             upper_bound |-> upper,
             target |-> DecHalf(DecAdd(lower, upper)),
             tolerance |-> DecHalf(DecSub(upper, lower))]
    ELSE LET raw_value == FloatOf(Group(m, s, 3))
             tolerance == DecMax(One, Round2(Dec(raw_value.m, raw_value.e - 1)))
         IN [type |-> "fixed",
             target |-> raw_value,
             lower_bound |-> DecSub(raw_value, tolerance),
             upper_bound |-> DecAdd(raw_value, tolerance),
             tolerance |-> tolerance]

\* a range record that carries a tolerance, as the word_count one does
TimeRecordWithTolerance(m, s) ==
  IF HasGroup(m, 1) /\ HasGroup(m, 3)
    THEN LET lower == IntOfDigits(Group(m, s, 1))
             upper == IntOfDigits(Group(m, s, 3))
         IN [type |-> "range",
             unit |-> Group(m, s, 2),
             lower_bound |-> lower,
             upper_bound |-> upper,
             target |-> (lower + upper) \div 2,
             tolerance |-> (upper - lower) \div 2]
    ELSE [type |-> "fixed",
          unit |-> Group(m, s, 6),
          target |-> IF HasGroup(m, 5) THEN IntOfDigits(Group(m, s, 5)) ELSE 0]

\* lines 136-155
TimeRecord(m, s) ==
  IF HasGroup(m, 1) /\ HasGroup(m, 3)
    THEN LET lower == IntOfDigits(Group(m, s, 1))
             upper == IntOfDigits(Group(m, s, 3))
         IN [type |-> "range",
             unit |-> Group(m, s, 2),
             lower_bound |-> lower,
             upper_bound |-> upper,
             target |-> (lower + upper) \div 2]
    ELSE [type |-> "fixed",
          unit |-> Group(m, s, 6),
          target |-> IF HasGroup(m, 5) THEN IntOfDigits(Group(m, s, 5)) ELSE 0]

-----------------------------------------------------------------------------
(* Inputs: the strings and values the two functions are called with        *)

\* how many fragments a prompt is put together from
MaxParts == 2

sp == <<" ">>

RECURSIVE Numeral(_)
\* the decimal digits of n >= 0
Numeral(n) ==
  IF n < 10 THEN <<DigitChars[n + 1]>>
  ELSE Numeral(n \div 10) \o <<DigitChars[(n % 10) + 1]>>

words == word \o <<"s">>
days == <<"d", "a", "y", "s">>
weeks == <<"w", "e", "e", "k", "s">>
months == <<"m", "o", "n", "t", "h", "s">>
years == <<"y", "e", "a", "r", "s">>
Write == <<"W", "r", "i", "t", "e">>
exactly == <<"e", "x", "a", "c", "t", "l", "y">>
budget == <<"b", "u", "d", "g", "e", "t">>
mIllIon == <<"m", "DOTLESS_I", "l", "l", "DOTLESS_I", "o", "n">>

\* "1,500" and the like
Thousands(a, b) == Numeral(a) \o <<",">> \o Numeral(b)

\* "Write exactly 150 words."
Scenario1 == Write \o sp \o exactly \o sp \o Numeral(150) \o sp \o words \o <<".">>

\* "Capex must not exceed $30 billion over 5 years."
Scenario2 ==
  <<"C", "a", "p", "e", "x", " ", "m", "u", "s", "t", " ", "n", "o", "t", " ",
    "e", "x", "c", "e", "e", "d", " ", "$">> \o Numeral(30) \o sp \o billion
  \o <<" ", "o", "v", "e", "r", " ">> \o Numeral(5) \o sp \o years \o <<".">>

\* "Target EV share between 45% and 55% by 2030."
Scenario3 ==
  <<"T", "a", "r", "g", "e", "t", " ", "E", "V", " ", "s", "h", "a", "r", "e", " ">>
  \o between \o sp \o Numeral(45) \o <<"%">> \o sp \o and \o sp \o Numeral(55)
  \o <<"%", " ", "b", "y", " ">> \o Numeral(2030) \o <<".">>

\* "Pilot runs for 90 days."
Scenario4 ==
  <<"P", "i", "l", "o", "t", " ", "r", "u", "n", "s", " ", "f", "o", "r", " ">>
  \o Numeral(90) \o sp \o days \o <<".">>

\* "Write 100 words... in 500 words total"
Scenario5 ==
  Write \o sp \o Numeral(100) \o sp \o words \o <<".", ".", ".", " ", "i", "n", " ">>
  \o Numeral(500) \o sp \o words \o <<" ", "t", "o", "t", "a", "l">>

\* lines 160-165, the prompt the module parses when it is loaded
SamplePrompt ==
  <<"\n", "T", "o", "d", "a", "y", " ", "i", "s", " ", "O", "c", "t", " ">>
  \o Numeral(10) \o <<",", " ">> \o Numeral(2025) \o <<".", " ">> \o Scenario1
  \o <<"\n">> \o Scenario2 \o <<"\n">> \o Scenario3 \o <<"\n">> \o Scenario4
  \o <<"\n">>

\* numbers written before "words"
WordNumbers ==
  {Numeral(n) : n \in {5, 99, 100, 105, 115, 150, 500, 9995, 12345}}
  \cup {Thousands(1, 500), <<"1", ",", "0", "0", "0">>}

WordMentions ==
  {n \o sp \o words : n \in WordNumbers} \cup {Numeral(250) \o word}

RangeNumbers == {Numeral(200), Numeral(300), <<"2", ",", "0", "0", "0">>}

RangeWords == {<<between, and>>, <<from, to>>, <<between, <<"-">>>>}

WordRanges ==
  {rw[1] \o sp \o a \o sp \o rw[2] \o sp \o b \o sp \o words :
     rw \in RangeWords, a \in RangeNumbers, b \in RangeNumbers}

\* what is written before a magnitude: the cues of both lists, and texts
\* that are no cue
CueTexts ==
  {UpperCues[n].w : n \in 1..Len(UpperCues)}
  \cup {LowerCues[n].w : n \in 1..Len(LowerCues)}
  \cup {<<>>,
        <<"n", "o", "t", " ", "e", "x", "c", "e", "e", "d">>,
        <<"U", "n", "d", "e", "r">>,
        <<"m", "o", "r", "e", "o", "v", "e", "r">>}

Magnitudes ==
  {Numeral(5) \o sp \o million,
   Numeral(30) \o sp \o billion,
   <<"1", ".", "5", " ", "M", "i", "l", "l", "i", "o", "n">>,
   Thousands(1, 500) \o million,
   Numeral(1234) \o sp \o million,
   Numeral(5) \o sp \o mIllIon}

BudgetMentions ==
  {c \o d \o g : c \in CueTexts, d \in {sp, <<" ", "$">>}, g \in Magnitudes}
  \cup {Numeral(5) \o sp \o million \o sp \o budget}

PercentNumbers == {Numeral(45), Numeral(55), <<"1", "2", ".", "5">>}

PercentMarks == {<<>>, <<"%">>, sp \o percent}

PercentMentions ==
  {n \o k : n \in PercentNumbers, k \in PercentMarks \ {<<>>}}
  \cup {rw[1] \o sp \o a \o j \o sp \o rw[2] \o sp \o b \o k :
          rw \in RangeWords, a \in PercentNumbers, b \in PercentNumbers,
          j \in PercentMarks, k \in PercentMarks}

TimeNumbers == {Numeral(2), Numeral(3), Numeral(90)}

TimeMentions ==
  {n \o sp \o u : n \in TimeNumbers \cup {Numeral(12345)},
                  u \in {days, years, <<"W", "e", "e", "k">>}}
  \cup {rw[1] \o sp \o a \o sp \o u \o sp \o rw[2] \o sp \o b \o sp \o v :
          rw \in RangeWords, a \in TimeNumbers, b \in TimeNumbers,
          u \in {weeks, days}, v \in {months, days}}

Scenarios == {Scenario1, Scenario2, Scenario3, Scenario4, Scenario5, SamplePrompt}

\* the fragments longer prompts are put together from
Parts ==
  <<Numeral(100) \o sp \o words,
    Numeral(500) \o sp \o words,
    between \o sp \o Numeral(200) \o sp \o and \o sp \o Numeral(300) \o sp \o words,
    <<"u", "n", "d", "e", "r", " ", "$">> \o Numeral(5) \o sp \o million,
    <<"a", "t", " ", "l", "e", "a", "s", "t", " ">> \o Numeral(2) \o sp \o billion,
    Numeral(30) \o sp \o billion \o sp \o budget,
    Numeral(45) \o <<"%">>,
    between \o sp \o Numeral(10) \o <<"%">> \o sp \o and \o sp \o Numeral(20) \o <<"%">>,
    Numeral(90) \o sp \o days,
    from \o sp \o Numeral(3) \o sp \o weeks \o sp \o to \o sp \o Numeral(2) \o sp \o months,
    Write>>

RECURSIVE Joined(_)
\* the parts numbered ns, a comma and a space between them
Joined(ns) ==
  IF Len(ns) = 1 THEN Parts[ns[1]]
  ELSE Parts[ns[1]] \o <<",", " ">> \o Joined(Tail(ns))

Combined ==
  UNION {{Joined(ns) : ns \in [1..k -> 1..Len(Parts)]} : k \in 2..MaxParts}

Prompts ==
  {<<>>} \cup Scenarios \cup WordMentions \cup WordRanges \cup BudgetMentions
  \cup PercentMentions \cup TimeMentions \cup Combined

AmountLeads == {<<>>, sp, <<"$">>, <<" ", "$", " ">>}

AmountDigits ==
  {Numeral(5), Numeral(30), <<"1", ".", "5">>, <<"2", ",", "0", "0", "0">>,
   <<"0", ".", "2", "5">>}

MillionSuffixes ==
  {sp \o million, million, <<" ", "M", "i", "l", "l", "i", "o", "n">>}

BillionSuffixes ==
  {sp \o billion, <<" ", " ", "B", "I", "L", "L", "I", "O", "N", " ">>}

\* no million, no billion: U+0131 is not "i" to str.lower() and "in"
OtherSuffixes == {sp \o mIllIon, <<" ", "t", "r", "i", "l", "l", "i", "o", "n">>}

AmountSuffixes == {<<>>} \cup MillionSuffixes \cup BillionSuffixes \cup OtherSuffixes

AmountStrings ==
  {l \o d \o x : l \in AmountLeads, d \in AmountDigits, x \in AmountSuffixes}
  \cup {<<>>, million, <<"a", "b", "c">>, <<"1", "e", "3">>, <<"i", "n", "f">>,
        <<"1", "_", "0", "0", "0">>, <<"-", "5">>, <<"1", ".", "5", ".", "2">>,
        <<".", "5">>, <<"5", ".">>, Numeral(5) \o sp \o million \o sp \o billion}

Values ==
  {StrArg(s) : s \in AmountStrings}
  \cup {IntArg(n) : n \in {0, 1, 7, 2000}}
  \cup {FloatArg(15, 0 - 1), FloatArg(3, 10)}
  \cup {OtherArg("NoneType"), OtherArg("list")}

-----------------------------------------------------------------------------
(* The state machine: one call of parse_amount or of parse_constraints     *)

\* no value yet
Unset == [t |-> "unset", m |-> 0, e |-> 0]

\* {}
EmptyDict == [k \in {} |-> Unset]

\* d[k] = v
SetItem(d, k, v) == (k :> v) @@ d

Init ==
  /\ pc = "start"
  /\ prompt = <<>>
  /\ value = OtherArg("unset")
  /\ constraints = EmptyDict
  /\ ret = Unset
  /\ raised = FALSE

\* a caller calls parse_amount(v)
CallParseAmount ==
  /\ pc = "start"
  /\ \E v \in Values : value' = v
  /\ pc' = "parse_amount"
  /\ UNCHANGED <<prompt, constraints, ret, raised>>

\* lines 17-34
ParseAmount ==
  /\ pc = "parse_amount"
  /\ LET r == parse_amount(value)
     IN /\ raised' = r.raised
        /\ ret' = IF r.raised THEN Unset ELSE r.ret
  /\ pc' = "amount_done"
  /\ UNCHANGED <<prompt, value, constraints>>

\* a caller calls parse_constraints(p); line 44
CallParseConstraints ==
  /\ pc = "start"
  /\ \E p \in Prompts : prompt' = p
  /\ constraints' = EmptyDict
  /\ pc' = "word_count"
  /\ UNCHANGED <<value, ret, raised>>

\* lines 47-72
WordCount ==
  /\ pc = "word_count"
  /\ LET w_match == Search(w_pattern, prompt)
     IN constraints' =
          IF w_match.found
            THEN SetItem(constraints, "word_count", WordRecord(w_match, prompt))
            ELSE constraints
  /\ pc' = "budget"
  /\ UNCHANGED <<prompt, value, ret, raised>>

\* lines 75-98; an exception of parse_amount (line 84) ends the call
Budget ==
  /\ pc = "budget"
  /\ LET pattern_budget == Search(budget_pattern, prompt)
         r == parse_amount(StrArg(RawValue(pattern_budget, prompt)))
     IN IF ~pattern_budget.found
          THEN /\ pc' = "percentage"
               /\ UNCHANGED <<constraints, raised>>
          ELSE IF r.raised
            THEN /\ pc' = "constraints_done"
                 /\ raised' = TRUE
                 /\ UNCHANGED constraints
            ELSE /\ pc' = "percentage"
                 /\ constraints' =
                      SetItem(constraints, "budget",
                              BudgetRecord(pattern_budget, prompt, r.ret))
                 /\ UNCHANGED raised
  /\ UNCHANGED <<prompt, value, ret>>

\* lines 101-126
Percentage ==
  /\ pc = "percentage"
  /\ LET pattern_percent == Search(percent_pattern, prompt)
     IN constraints' =
          IF pattern_percent.found
            THEN SetItem(constraints, "percentage",
                         PercentRecord(pattern_percent, prompt))
            ELSE constraints
  /\ pc' = "timeframe"
  /\ UNCHANGED <<prompt, value, ret, raised>>

\* lines 129-155
Timeframe ==
  /\ pc = "timeframe"
  /\ LET pattern_time == Search(time_pattern, prompt)
     IN constraints' =
          IF pattern_time.found
            THEN SetItem(constraints, "timeframe", TimeRecord(pattern_time, prompt))
            ELSE constraints
  /\ pc' = "return"
  /\ UNCHANGED <<prompt, value, ret, raised>>

\* line 157
Return ==
  /\ pc = "return"
  /\ ret' = constraints
  /\ pc' = "constraints_done"
  /\ UNCHANGED <<prompt, value, constraints, raised>>

Next ==
  \/ CallParseAmount
  \/ ParseAmount
  \/ CallParseConstraints
  \/ WordCount
  \/ Budget
  \/ Percentage
  \/ Timeframe
  \/ Return

Spec == Init /\ [][Next]_vars

\* parse_constraints has returned its dict
Returned == pc = "constraints_done" /\ ~raised

Has(k) == k \in DOMAIN ret

-----------------------------------------------------------------------------
(* Scenario 2                                                              *)

\* C1: for "Capex must not exceed $30 billion over 5 years." the result has
\* the budget record {max, 3.0e10, upper 3.0e10, lower None, "30 billion"}
\* and the timeframe record {fixed, "years", 5}.
C1_Scenario2Max ==
  (Returned /\ prompt = Scenario2) =>
    /\ Has("budget")
    /\ ret["budget"] = [type |-> "max",
                        target |-> Dec(3, 10),
                        upper_bound |-> Dec(3, 10),
                        lower_bound |-> None,
                        raw_value |-> Numeral(30) \o sp \o billion]
    /\ Has("timeframe")
    /\ ret["timeframe"] = [type |-> "fixed", unit |-> years, target |-> 5]

-----------------------------------------------------------------------------
(* Scenario 1                                                              *)

\* C2, as the claim states it: for "Write exactly 150 words." the word_count
\* record is {fixed, target 150, lower 140, upper 160, tolerance 10}.
C2_Scenario1Tolerance10 ==
  (Returned /\ prompt = Scenario1) =>
    /\ Has("word_count")
    /\ ret["word_count"] = [type |-> "fixed", target |-> 150, lower_bound |-> 140,
                            upper_bound |-> 160, tolerance |-> 10]

\* C2, amended: for "Write exactly 150 words." the word_count record is
\* {fixed, target 150, lower 135, upper 165, tolerance 15}: the tolerance is
\* max(10, round(0.1 * 150)) = 15.
C2_Scenario1Tolerance15 ==
  (Returned /\ prompt = Scenario1) =>
    /\ Has("word_count")
    /\ ret["word_count"] = [type |-> "fixed", target |-> 150, lower_bound |-> 135,
                            upper_bound |-> 165, tolerance |-> 15]

C2_Witness == Returned /\ prompt = Scenario1 /\ Has("word_count")

-----------------------------------------------------------------------------
(* Budget type and bounds                                                  *)

CueWords(cues) == {cues[n].w : n \in 1..Len(cues)}

EndsWith(t, w) == Len(w) <= Len(t) /\ SubSeq(t, Len(t) - Len(w) + 1, Len(t)) = w

DropDollar(t) ==
  IF t # <<>> /\ t[Len(t)] = "$" THEN SubSeq(t, 1, Len(t) - 1) ELSE t

\* the text before the magnitude the budget pattern matched, without the
\* white space and "$" between a cue and the magnitude, letters folded
BeforeMagnitude ==
  LET m == Search(budget_pattern, prompt)
      g == CHOOSE n \in 1..3 : HasGroup(m, n)
  IN RStrip(DropDollar(RStrip(Fold(SubSeq(prompt, 1, m.c[g][1] - 1)))))

\* the length of the longest of the cues that t ends with, 0 when there is none
LongestCue(cues, t) ==
  LET ls == {Len(w) : w \in {x \in CueWords(cues) : EndsWith(t, x)}} \cup {0}
  IN CHOOSE l \in ls : \A k \in ls : k <= l

\* the type the cue before the magnitude calls for: that of the longest cue
\* the text before it ends with
CueType(t) ==
  IF LongestCue(UpperCues, t) = 0 /\ LongestCue(LowerCues, t) = 0 THEN "fixed"
  ELSE IF LongestCue(UpperCues, t) > LongestCue(LowerCues, t) THEN "max"
  ELSE "min"

\* C3: a budget record has type max when an upper-bound cue introduces the
\* matched magnitude, min when a lower-bound cue does, fixed otherwise ("not
\* exceeding" gives max, "no less than" gives min); upper_bound is the target
\* for max and None otherwise, lower_bound is the target for min and None
\* otherwise.
C3_BudgetTypeFollowsCue ==
  (Returned /\ Has("budget")) =>
    LET b == ret["budget"]
    IN /\ b.type = CueType(BeforeMagnitude)
       /\ b.target.t = "float"
       /\ b.upper_bound = IF b.type = "max" THEN b.target ELSE None
       /\ b.lower_bound = IF b.type = "min" THEN b.target ELSE None

C3_Witness ==
  /\ Returned
  /\ Has("budget")
  /\ ret["budget"].type = "max"
  /\ EndsWith(BeforeMagnitude, UpperCues[5].w)

-----------------------------------------------------------------------------
(* Range records                                                           *)

IsRange(k) == Has(k) /\ ret[k].type = "range"

\* C4: every range record (word_count, percentage, timeframe), the two
\* numbers written in either order, has lower_bound <= target <= upper_bound
\* and target the midpoint of the bounds (floored for word_count and
\* timeframe, exact for percentage).
C4_RangeTargetWithinBounds ==
  Returned =>
    /\ \A k \in {"word_count", "timeframe"} :
         IsRange(k) =>
           /\ ret[k].lower_bound <= ret[k].target
           /\ ret[k].target <= ret[k].upper_bound
           /\ ret[k].target = (ret[k].lower_bound + ret[k].upper_bound) \div 2
    /\ IsRange("percentage") =>
         /\ DecLeq(ret["percentage"].lower_bound, ret["percentage"].target)
         /\ DecLeq(ret["percentage"].target, ret["percentage"].upper_bound)
         /\ ret["percentage"].target =
              DecHalf(DecAdd(ret["percentage"].lower_bound,
                             ret["percentage"].upper_bound))

-----------------------------------------------------------------------------
(* The percentage key                                                      *)

\* C5: the result has a percentage key only for a prompt in which "%" or
\* "percent" is written.
C5_PercentageNeedsMarker ==
  (Returned /\ Has("percentage")) =>
    \/ Contains(Fold(prompt), <<"%">>)
    \/ Contains(Fold(prompt), percent)

-----------------------------------------------------------------------------
(* Comma thousands-separators                                              *)

\* C6: a word-count number written with a comma is one number: "1,500 words"
\* gives target 1500, and the low and high values of a range lose their
\* commas likewise.
C6_CommaNumberIsOneNumber ==
  Returned =>
    /\ prompt = Thousands(1, 500) \o sp \o words =>
         Has("word_count") /\ ret["word_count"].target = 1500
    /\ \A rw \in RangeWords :
         prompt = rw[1] \o sp \o <<"2", ",", "0", "0", "0">> \o sp \o rw[2] \o sp
                  \o <<"2", ",", "0", "0", "0">> \o sp \o words =>
           /\ IsRange("word_count")
           /\ ret["word_count"].lower_bound = 2000
           /\ ret["word_count"].upper_bound = 2000

-----------------------------------------------------------------------------
(* The fields of a timeframe record                                        *)

\* C7, as the claim states it: every timeframe record, fixed or range, has
\* the fields type, unit and target only.
C7_TimeframeThreeFields ==
  (Returned /\ Has("timeframe")) =>
    DOMAIN ret["timeframe"] = {"type", "unit", "target"}

\* C7, amended: a fixed timeframe record has the fields type, unit and target
\* only; a range timeframe record has type, unit, target and also lower_bound
\* and upper_bound, the two numbers as written; no timeframe record has a
\* tolerance field.
C7_TimeframeFields ==
  (Returned /\ Has("timeframe")) =>
    LET r == ret["timeframe"]
    IN /\ r.type \in {"fixed", "range"}
       /\ r.type = "fixed" => DOMAIN r = {"type", "unit", "target"}
       /\ r.type = "range" =>
            DOMAIN r = {"type", "unit", "lower_bound", "upper_bound", "target"}

C7_Witness == Returned /\ IsRange("timeframe") /\ ret["timeframe"].lower_bound = 3

-----------------------------------------------------------------------------
(* First match wins                                                        *)

Kinds == {"word_count", "budget", "percentage", "timeframe"}

\* the parts that are a mention of kind k: the ones its pattern matches (the
\* percentage pattern matches the range of part 3 too)
MentionParts(k) ==
  CASE k = "word_count" -> {1, 2, 3}
    [] k = "budget" -> {4, 5, 6}
    [] k = "percentage" -> {3, 7, 8}
    [] k = "timeframe" -> {9, 10}

\* the record of kind k that part j alone stands for
MentionRecord(k, j) ==
  CASE k = "word_count" /\ j = 1 ->
         [type |-> "fixed", lower_bound |-> 90, upper_bound |-> 110,
          target |-> 100, tolerance |-> 10]
    [] k = "word_count" /\ j = 2 ->
         [type |-> "fixed", lower_bound |-> 450, upper_bound |-> 550,
          target |-> 500, tolerance |-> 50]
    [] k = "word_count" /\ j = 3 ->
         [type |-> "range", lower_bound |-> 200, upper_bound |-> 300,
          target |-> 250, tolerance |-> 50]
    [] k = "budget" /\ j = 4 ->
         [type |-> "max", target |-> Dec(5, 6), upper_bound |-> Dec(5, 6),
          lower_bound |-> None, raw_value |-> Numeral(5) \o sp \o million]
    [] k = "budget" /\ j = 5 ->
         [type |-> "min", target |-> Dec(2, 9), upper_bound |-> None,
          lower_bound |-> Dec(2, 9), raw_value |-> Numeral(2) \o sp \o billion]
    [] k = "budget" /\ j = 6 ->
         [type |-> "fixed", target |-> Dec(3, 10), upper_bound |-> None,
          lower_bound |-> None, raw_value |-> Numeral(30) \o sp \o billion]
    [] k = "percentage" /\ j = 3 ->
         [type |-> "range", lower_bound |-> Dec(200, 0), upper_bound |-> Dec(300, 0),
          target |-> Dec(250, 0), tolerance |-> Dec(50, 0)]
    [] k = "percentage" /\ j = 7 ->
         [type |-> "fixed", target |-> Dec(45, 0), lower_bound |-> Dec(405, 0 - 1),
          upper_bound |-> Dec(495, 0 - 1), tolerance |-> Dec(45, 0 - 1)]
    [] k = "percentage" /\ j = 8 ->
         [type |-> "range", lower_bound |-> Dec(10, 0), upper_bound |-> Dec(20, 0),
          target |-> Dec(15, 0), tolerance |-> Dec(5, 0)]
    [] k = "timeframe" /\ j = 9 ->
         [type |-> "fixed", unit |-> days, target |-> 90]
    [] k = "timeframe" /\ j = 10 ->
         [type |-> "range", unit |-> weeks, lower_bound |-> 3, upper_bound |-> 2,
          target |-> 2]

\* where in the prompt the mentions of kind k are written: <<position, part>>
Mentions(k) ==
  {x \in (1..Len(prompt)) \X MentionParts(k) : OccursAt(Parts[x[2]], prompt, x[1])}

\* the mention of kind k that starts leftmost
FirstMention(k) == CHOOSE x \in Mentions(k) : \A y \in Mentions(k) : x[1] <= y[1]

\* C8: for a prompt with two or more mentions of a kind, the result holds the
\* record built from the mention that starts leftmost, and no field of it
\* depends on the later ones ("Write 100 words... in 500 words total" gives
\* target 100).
C8_FirstMentionWins ==
  (Returned /\ (prompt \in Combined \/ prompt = Scenario5)) =>
    \A k \in Kinds :
      Cardinality(Mentions(k)) >= 2 =>
        Has(k) /\ ret[k] = MentionRecord(k, FirstMention(k)[2])

C8_Witness ==
  /\ Returned
  /\ prompt \in Combined
  /\ Cardinality(Mentions("word_count")) >= 2
  /\ FirstMention("word_count")[2] = 2
  /\ ret["word_count"].target = 500

-----------------------------------------------------------------------------
(* The two failure outcomes of parse_amount                                *)

\* strings that are no float literal once trimmed, lower-cased and rid of
\* "$", the million or billion word and commas
BadStrings ==
  {l \o d \o x : l \in AmountLeads, d \in AmountDigits, x \in OtherSuffixes}
  \cup {<<>>, million, <<"a", "b", "c">>, <<"1", ".", "5", ".", "2">>,
        Numeral(5) \o sp \o million \o sp \o billion}

\* C9: parse_amount returns None, raising nothing, for a value that is
\* neither a number nor a string; for a string that is no float literal once
\* cleaned it raises and returns neither None nor a number; and
\* parse_constraints does not catch the error: it returns no result, not
\* even a partial one.
C9_TwoFailureOutcomes ==
  /\ (pc = "amount_done" /\ value.t \notin {"int", "float", "str"}) =>
       (~raised /\ ret = None)
  /\ (pc = "amount_done" /\ value.t = "str" /\ value.s \in BadStrings) =>
       (raised /\ ret = Unset)
  /\ (pc = "constraints_done" /\ Contains(prompt, mIllIon)) => raised
  /\ (pc = "constraints_done" /\ raised) => ret = Unset

C9_Witness == pc = "constraints_done" /\ raised /\ Contains(prompt, mIllIon)

-----------------------------------------------------------------------------
(* The value of parse_amount                                               *)

\* the number the digits of an amount stand for, commas removed
AmountOf(d) ==
  CASE d = Numeral(5) -> Dec(5, 0)
    [] d = Numeral(30) -> Dec(30, 0)
    [] d = <<"1", ".", "5">> -> Dec(15, 0 - 1)
    [] d = <<"2", ",", "0", "0", "0">> -> Dec(2000, 0)
    [] d = <<"0", ".", "2", "5">> -> Dec(25, 0 - 2)

\* the power of ten a suffix multiplies by
SuffixPower(x) ==
  IF x \in MillionSuffixes THEN 6 ELSE IF x \in BillionSuffixes THEN 9 ELSE 0

\* C10: for digits with an optional fraction, an optional leading "$", comma
\* separators and surrounding white space, followed by million or billion in
\* any letter case, parse_amount returns the number times 1e6 or 1e9; with
\* no such suffix it returns the number itself ("$2,000" gives 2000).
C10_AmountTimesMultiplier ==
  pc = "amount_done" =>
    \A l \in AmountLeads, d \in AmountDigits,
       x \in {<<>>} \cup MillionSuffixes \cup BillionSuffixes :
      value = StrArg(l \o d \o x) =>
        (~raised /\ ret = Dec(AmountOf(d).m, AmountOf(d).e + SuffixPower(x)))

C10_Witness ==
  /\ pc = "amount_done"
  /\ value = StrArg(<<" ", "$", " ", "1", ".", "5", " ", "M", "i", "l", "l", "i", "o", "n">>)
  /\ ret = Dec(15, 5)

====
